---------------------------- MODULE Spec2Model ----------------------------
(***************************************************************************)
(* A model of the two programs of the repository:                          *)
(*                                                                         *)
(*  - 2_openai/sdr_auto_reply.py: the thread-id function, the SQLite       *)
(*    conversation/message store and the Flask request handlers            *)
(*    (specifications SpecTid, Spec, SpecSeq);                             *)
(*  - 2_openai/deep_research/research_manager.py: the research pipeline    *)
(*    and its concurrent searches (specification SpecResearch).            *)
(*                                                                         *)
(* Text is a sequence of one-character strings, so that lower(), replace() *)
(* and strip() are computed character by character as Python does.         *)
(***************************************************************************)
EXTENDS Integers, Sequences, FiniteSets, TLC

VARIABLES
    \* ---- generate_thread_id called on an input and on a variant of it
    t_email, t_subject,     \* the first call's arguments
    v_email, v_subject,     \* the second call's arguments
    v_edits,                \* the edits that made the variant: [prefixes, lpad, rpad]
    t_id, v_id,             \* the two calls' results (NoId before the call)
    \* ---- the SQLite file and the Flask handlers' requests
    conversations,          \* table conversations, in rowid order
    messages,               \* table messages, in rowid order
    now,                    \* CURRENT_TIMESTAMP, in whole seconds
    req,                    \* the requests in flight, one per worker thread
    started,                \* number of POST requests accepted so far
    view,                   \* the response of the GET request the last step served
    \* ---- ResearchManager.run
    run_pc,                 \* where the generator ResearchManager.run stands
    run_exc,                \* the call whose exception left run (None: none)
    yielded,                \* what run has yielded so far (run_research re-yields it)
    search_plan,            \* WebSearchPlan.searches: the planned items
    tasks,                  \* the asyncio tasks of perform_searches, in plan order
    doneq,                  \* as_completed's queue: task indices in completion order
    results,                \* perform_searches' local list
    num_completed,          \* perform_searches' local counter
    search_results,         \* run's local: what perform_searches returned
    report,                 \* run's local: the writer's ReportData
    calls                   \* Runner.run invocations per agent

tidVars      == <<t_email, t_subject, v_email, v_subject, v_edits, t_id, v_id>>
storeVars    == <<conversations, messages, now, req, started, view>>
researchVars == <<run_pc, run_exc, yielded, search_plan, tasks, doneq, results,
                  num_completed, search_results, report, calls>>
vars         == <<tidVars, storeVars, researchVars>>

\* Python's None, for a text and for a number
None == "None"
NoId == 0 - 1

(***************************************************************************)
(* Bounds of the model.                                                    *)
(***************************************************************************)
MaxSubjLen  == 2    \* length of the subject drawn for generate_thread_id
MaxPrefixes == 2    \* reply/forward prefixes put before the variant's subject
MaxPads     == 1    \* blanks put on each side of the variant's subject
MaxRequests == 2    \* POST requests accepted in one run of the server
MaxTime     == 1    \* last second the clock reaches
MaxSearches == 3    \* items in the planner's search plan

(***************************************************************************)
(* Characters.  Ord is the code point; lower-casing maps an upper-case     *)
(* ASCII letter to the lower-case letter of the same rank, as str.lower()  *)
(* does on ASCII text, and leaves every other character alone.             *)
(***************************************************************************)
LowerLetters == <<"a", "b", "c", "d", "e", "f", "g", "h", "i", "j", "k", "l", "m",
                  "n", "o", "p", "q", "r", "s", "t", "u", "v", "w", "x", "y", "z">>
UpperLetters == <<"A", "B", "C", "D", "E", "F", "G", "H", "I", "J", "K", "L", "M",
                  "N", "O", "P", "Q", "R", "S", "T", "U", "V", "W", "X", "Y", "Z">>
Marks == {" ", "\"", "-", ".", ":", "<", ">", "@"}

Range(f) == { f[i] : i \in DOMAIN f }
Chars == Range(LowerLetters) \cup Range(UpperLetters) \cup Marks

OrdTable ==
    [c \in Chars |->
        IF c \in Range(LowerLetters)
        THEN 96 + (CHOOSE i \in 1..26 : LowerLetters[i] = c)
        ELSE IF c \in Range(UpperLetters)
        THEN 64 + (CHOOSE i \in 1..26 : UpperLetters[i] = c)
        ELSE CASE c = " " -> 32 [] c = "\"" -> 34 [] c = "-" -> 45 [] c = "." -> 46
               [] c = ":" -> 58 [] c = "<" -> 60  [] c = ">" -> 62 [] c = "@" -> 64]
Ord(c) == OrdTable[c]

IsUpper(c) == Ord(c) >= 65 /\ Ord(c) <= 90
IsLower(c) == Ord(c) >= 97 /\ Ord(c) <= 122
IsSpace(c) == c = " "

LowerTable == [c \in Chars |-> IF IsUpper(c) THEN LowerLetters[Ord(c) - 64] ELSE c]
SwapTable  == [c \in Chars |-> IF IsUpper(c) THEN LowerLetters[Ord(c) - 64]
                               ELSE IF IsLower(c) THEN UpperLetters[Ord(c) - 96]
                               ELSE c]
LowerChar(c) == LowerTable[c]
SwapCase(c)  == SwapTable[c]

\* str.lower()
Lower(s) == [i \in 1..Len(s) |-> LowerChar(s[i])]

\* str.startswith(p)
StartsWith(s, p) == Len(s) >= Len(p) /\ SubSeq(s, 1, Len(p)) = p

\* str.replace(p, ''): the occurrences of p are removed left to right, and
\* the scan goes on after each occurrence (no overlap, no rescan).
RECURSIVE Remove(_, _)
Remove(s, p) ==
    IF Len(s) < Len(p) THEN s
    ELSE IF StartsWith(s, p) THEN Remove(SubSeq(s, Len(p) + 1, Len(s)), p)
    ELSE <<Head(s)>> \o Remove(Tail(s), p)

\* str.strip()
RECURSIVE LStrip(_)
LStrip(s) == IF s # <<>> /\ IsSpace(Head(s)) THEN LStrip(Tail(s)) ELSE s
RECURSIVE RStrip(_)
RStrip(s) == IF s # <<>> /\ IsSpace(s[Len(s)])
             THEN RStrip(SubSeq(s, 1, Len(s) - 1)) ELSE s
Strip(s) == RStrip(LStrip(s))

(***************************************************************************)
(* generate_thread_id                                                      *)
(***************************************************************************)
\* the list the loop of generate_thread_id goes through, in its order
ThreadPrefixes == << <<"r", "e", ":">>, <<"f", "w", "d", ":">>, <<"f", "w", ":">>,
                     <<"r", "e", ":", " ">>, <<"f", "w", "d", ":", " ">>,
                     <<"f", "w", ":", " ">> >>

RECURSIVE RemovePrefixes(_, _)
RemovePrefixes(s, k) ==
    IF k > Len(ThreadPrefixes) THEN s
    ELSE RemovePrefixes(Remove(s, ThreadPrefixes[k]), k + 1)

CleanSubject(subject) == Strip(RemovePrefixes(Lower(subject), 1))

\* hashlib.md5(key.encode()).hexdigest()[:12] is a fixed-width digest of the
\* key.  MD5 is abstracted by a polynomial digest (TLC's integers are 32-bit,
\* so the digest is narrower than the 48 bits of 12 hex digits): equal keys
\* get equal digests, and the keys the model draws get distinct ones.
DigestModulus == 8388593
RECURSIVE Digest12(_, _)
Digest12(key, acc) ==
    IF key = <<>> THEN acc
    ELSE Digest12(Tail(key), (acc * 131 + Ord(Head(key))) % DigestModulus)

ThreadKey(email, subject) == Lower(email) \o <<":">> \o CleanSubject(subject)

\* the mutant: the email is hashed as given, the subject is not stripped
generate_thread_id_m(email, subject) ==
    Digest12(email \o <<":">> \o RemovePrefixes(Lower(subject), 1), 7)

generate_thread_id(email, subject) == Digest12(ThreadKey(email, subject), 7)

(***************************************************************************)
(* SpecTid: generate_thread_id is called on an input and on a variant of   *)
(* it.  The variant is made from the input by changing the case of its     *)
(* letters, by putting reply/forward prefixes (of mixed case, with and      *)
(* without a blank after the colon) before the subject, and by putting     *)
(* blanks around the whole.                                                *)
(***************************************************************************)
SubjChars == {"r", "e", ":", "f", "w", " "}
TidEmails == { <<"a", "@", "B">> }
ReplyPrefixes == { <<"R", "e", ":", " ">>, <<"F", "W", "D", ":">>,
                   <<"f", "w", ":", " ">> }

SeqsUpTo(S, n) == UNION { [1..k -> S] : k \in 0..n }

NoEdits == [prefixes |-> 0, lpad |-> 0, rpad |-> 0]

TidInit ==
    /\ t_email \in TidEmails
    /\ t_subject \in SeqsUpTo(SubjChars, MaxSubjLen)
    /\ v_email = t_email
    /\ v_subject = t_subject
    /\ v_edits = NoEdits
    /\ t_id = NoId
    /\ v_id = NoId

\* the thread-id variables in the specifications that do not study them
TidIdle ==
    /\ t_email = <<>>
    /\ t_subject = <<>>
    /\ v_email = <<>>
    /\ v_subject = <<>>
    /\ v_edits = NoEdits
    /\ t_id = NoId
    /\ v_id = NoId

\* the variant's email with the case of every letter changed
SwapEmailCase ==
    /\ t_id = NoId
    /\ v_email' = [i \in 1..Len(v_email) |-> SwapCase(v_email[i])]
    /\ v_email' # v_email
    /\ UNCHANGED <<t_email, t_subject, v_subject, v_edits, t_id, v_id>>
    /\ UNCHANGED <<storeVars, researchVars>>

\* the variant's subject with the case of every letter changed (the
\* prefixes put before it afterwards have a case of their own)
SwapSubjectCase ==
    /\ t_id = NoId
    /\ v_edits.prefixes = 0
    /\ v_subject' = [i \in 1..Len(v_subject) |-> SwapCase(v_subject[i])]
    /\ v_subject' # v_subject
    /\ UNCHANGED <<t_email, t_subject, v_email, v_edits, t_id, v_id>>
    /\ UNCHANGED <<storeVars, researchVars>>

\* a prefix is put before the subject, and before the prefixes it has
AddPrefix ==
    /\ t_id = NoId
    /\ v_edits.prefixes < MaxPrefixes
    /\ v_edits.lpad = 0
    /\ \E p \in ReplyPrefixes : v_subject' = p \o v_subject
    /\ v_edits' = [v_edits EXCEPT !.prefixes = @ + 1]
    /\ UNCHANGED <<t_email, t_subject, v_email, t_id, v_id>>
    /\ UNCHANGED <<storeVars, researchVars>>

PadLeft ==
    /\ t_id = NoId
    /\ v_edits.lpad < MaxPads
    /\ v_subject' = <<" ">> \o v_subject
    /\ v_edits' = [v_edits EXCEPT !.lpad = @ + 1]
    /\ UNCHANGED <<t_email, t_subject, v_email, t_id, v_id>>
    /\ UNCHANGED <<storeVars, researchVars>>

PadRight ==
    /\ t_id = NoId
    /\ v_edits.rpad < MaxPads
    /\ v_subject' = v_subject \o <<" ">>
    /\ v_edits' = [v_edits EXCEPT !.rpad = @ + 1]
    /\ UNCHANGED <<t_email, t_subject, v_email, t_id, v_id>>
    /\ UNCHANGED <<storeVars, researchVars>>

\* the two calls of generate_thread_id
CallThreadId ==
    /\ t_id = NoId
    /\ t_id' = generate_thread_id(t_email, t_subject)
    /\ v_id' = generate_thread_id(v_email, v_subject)
    /\ UNCHANGED <<t_email, t_subject, v_email, v_subject, v_edits>>
    /\ UNCHANGED <<storeVars, researchVars>>

(***************************************************************************)
(* sdr_auto_reply.py: text helpers of the request handlers                 *)
(***************************************************************************)
\* 'p in s'
Contains(s, p) ==
    \E i \in 1..(Len(s) - Len(p) + 1) : SubSeq(s, i, i + Len(p) - 1) = p

\* s.split(c)[0] and s.split(c)[1], c one character
SplitHead(s, c) ==
    IF Contains(s, <<c>>)
    THEN SubSeq(s, 1, (CHOOSE i \in 1..Len(s) :
                          s[i] = c /\ \A j \in 1..(i - 1) : s[j] # c) - 1)
    ELSE s
SplitSecond(s, c) ==
    LET i == CHOOSE k \in 1..Len(s) : s[k] = c /\ \A j \in 1..(k - 1) : s[j] # c
    IN  SplitHead(SubSeq(s, i + 1, Len(s)), c)

\* s.strip('"')
RECURSIVE StripQuotes(_)
StripQuotes(s) ==
    IF s # <<>> /\ Head(s) = "\"" THEN StripQuotes(Tail(s))
    ELSE IF s # <<>> /\ s[Len(s)] = "\"" THEN StripQuotes(SubSeq(s, 1, Len(s) - 1))
    ELSE s

\* A text with line breaks is the sequence of its lines (text.split('\n'));
\* the empty text is one empty line.
EmptyText == << <<>> >>
IsBlank(line) == Strip(line) = <<>>

\* '\n'.join(lines).strip()
RECURSIVE DropBlankHead(_)
DropBlankHead(lines) ==
    IF lines # <<>> /\ IsBlank(Head(lines)) THEN DropBlankHead(Tail(lines)) ELSE lines
RECURSIVE DropBlankLast(_)
DropBlankLast(lines) ==
    IF lines # <<>> /\ IsBlank(lines[Len(lines)])
    THEN DropBlankLast(SubSeq(lines, 1, Len(lines) - 1)) ELSE lines
JoinStrip(lines) ==
    LET kept == DropBlankLast(DropBlankHead(lines))
    IN  IF kept = <<>> THEN EmptyText
        ELSE LET a == [kept EXCEPT ![1] = LStrip(@)]
             IN  [a EXCEPT ![Len(a)] = RStrip(@)]

\* the loop of clean_email_body: quoted lines are skipped, and the first
\* reply header, forwarded header or signature delimiter ends the text
RECURSIVE CleanLines(_)
CleanLines(lines) ==
    IF lines = <<>> THEN <<>>
    ELSE LET line == Head(lines) IN
         IF StartsWith(Strip(line), <<">">>) THEN CleanLines(Tail(lines))
         ELSE IF Contains(line, <<"O", "n", " ">>) /\ Contains(line, <<" ", "w", "r", "o", "t", "e", ":">>) THEN <<>>
         ELSE IF StartsWith(Strip(line), <<"F", "r", "o", "m", ":">>) /\ Contains(line, <<"@">>) THEN <<>>
         ELSE IF Contains(line, <<"-", "-", "-", "-", "-", "-", "-", "-", " ", "O", "r", "i", "g", "i", "n", "a", "l", " ", "M", "e", "s", "s", "a", "g", "e", " ", "-", "-", "-", "-", "-", "-", "-", "-">>) THEN <<>>
         ELSE IF Strip(line) = <<"-", "-">> THEN <<>>
         ELSE <<line>> \o CleanLines(Tail(lines))

clean_email_body(body) == JoinStrip(CleanLines(body))

\* request.form.get(k, default) and data.get(k, default): a form or a JSON
\* object is a record of the fields that were sent
Get(d, k, default) == IF k \in DOMAIN d THEN d[k] ELSE default

YOUR_EMAIL == <<"m", "e", "@", "s", ".", "c", "o">>

\* f"Re: {subject}" if not subject.lower().startswith('re:') else subject
ReplySubject(subject) ==
    IF StartsWith(Lower(subject), <<"r", "e", ":">>) THEN subject ELSE <<"R", "e", ":", " ">> \o subject

\* the parsing of receive_email, lines 275-292
ParseForm(form) ==
    LET from == Get(form, "from", <<>>)
        bracketed == Contains(from, <<"<">>) /\ Contains(from, <<">">>)
        text_body == Get(form, "text", EmptyText)
        html_body == Get(form, "html", EmptyText)
    IN  [sender_name  |-> IF bracketed THEN StripQuotes(Strip(SplitHead(from, "<")))
                          ELSE SplitHead(from, "@"),
         sender_email |-> IF bracketed THEN SplitHead(SplitSecond(from, "<"), ">")
                          ELSE from,
         recipient    |-> Get(form, "to", <<>>),
         subject      |-> Get(form, "subject", <<"N", "o", " ", "S", "u", "b", "j", "e", "c", "t">>),
         body         |-> clean_email_body(IF text_body # EmptyText THEN text_body
                                           ELSE html_body)]

\* the parsing of simulate_incoming_email, lines 427-432
ParseJson(data) ==
    [sender_name  |-> Get(data, "name", <<"T", "e", "s", "t", " ", "U", "s", "e", "r">>),
     sender_email |-> Get(data, "from", <<"t", "e", "s", "t", "@", "e", "x", "a", "m", "p", "l", "e", ".", "c", "o", "m">>),
     recipient    |-> YOUR_EMAIL,
     subject      |-> Get(data, "subject", <<"T", "e", "s", "t", " ", "S", "u", "b", "j", "e", "c", "t">>),
     body         |-> Get(data, "body", << <<"T", "h", "i", "s", " ", "i", "s", " ", "a", " ", "t", "e", "s", "t", " ", "m", "e", "s", "s", "a", "g", "e", ".">> >>)]

\* the requests the model sends: form posts of the webhook, JSON posts of
\* the test endpoint
WebhookForms ==
    { [from |-> <<"a", "@", "b">>, to |-> YOUR_EMAIL, subject |-> <<"h", "i">>,
       text |-> << <<"o", "k">> >>],
      [from |-> <<"\"", "A", "l", "\"", " ", "<", "A", "@", "b", ">">>, to |-> YOUR_EMAIL, subject |-> <<"R", "e", ":", " ", "H", "i", " ">>,
       html |-> << <<"y", "e", "s", " ">>, <<">", " ", "o", "k">>, <<"O", "n", " ", "M", "o", "n", " ", "A", "l", " ", "w", "r", "o", "t", "e", ":">>, <<"h", "i">> >>],
      [from |-> <<"c", "@", "d">>] }

SimulateJsons ==
    { [from |-> <<"a", "@", "B">>, name |-> <<"A", "l">>, subject |-> <<"F", "w", ":", "h", "i">>,
       body |-> << <<"o", "k">> >>],
      [name |-> <<"A", "l">>] }

\* what the SDR agent may answer (result.final_output)
Replies == { << <<"s", "u", "r", "e">> >> }

(***************************************************************************)
(* sdr_auto_reply.py: the SQLite tables.  A table is the sequence of its   *)
(* rows in rowid order; no statement of the program deletes a row, so the  *)
(* AUTOINCREMENT id of a new row is the length of the table plus one.      *)
(***************************************************************************)
\* init_db: both tables exist and are empty
init_db ==
    /\ conversations = <<>>
    /\ messages = <<>>

\* the row of INSERT INTO conversations (lines 110-113) with the defaults of
\* the table (status 'active', both timestamps CURRENT_TIMESTAMP)
NewConversation(thread_id, prospect_email, prospect_name, subject) ==
    [id             |-> Len(conversations) + 1,
     thread_id      |-> thread_id,
     prospect_email |-> prospect_email,
     prospect_name  |-> prospect_name,
     subject        |-> subject,
     status         |-> "active",
     created_at     |-> now,
     updated_at     |-> now]

\* a mutant of the UPDATE: the row is replaced by a new one
TouchConversation_m(c) == [c EXCEPT !.created_at = now, !.updated_at = now]

\* UPDATE conversations SET updated_at = CURRENT_TIMESTAMP (lines 117-119)
TouchConversation(c) == [c EXCEPT !.updated_at = now]

\* the row of INSERT INTO messages (lines 132-135)
NewMessage(thread_id, direction, sender, recipient, subject, body) ==
    [id         |-> Len(messages) + 1,
     thread_id  |-> thread_id,
     direction  |-> direction,
     sender     |-> sender,
     recipient  |-> recipient,
     subject    |-> subject,
     body       |-> body,
     created_at |-> now]

\* a mutant of the SELECT: it finds no row
HasConversation_m(thread_id) == FALSE

\* SELECT thread_id FROM conversations WHERE thread_id = ? ... fetchone()
HasConversation(thread_id) ==
    \E i \in 1..Len(conversations) : conversations[i].thread_id = thread_id

\* thread_id TEXT UNIQUE NOT NULL: an INSERT of a thread id the table holds
\* raises sqlite3.IntegrityError
UniqueViolation(thread_id) ==
    \E i \in 1..Len(conversations) : conversations[i].thread_id = thread_id

\* The rows of index set I of table T in an order ORDER BY allows: ascending
\* in the key K[i] of row i, rows of equal key in any order (SQLite leaves
\* that order undefined).  The set of all such orders.
RECURSIVE OrdersBy(_, _, _)
OrdersBy(T, I, K) ==
    IF I = {} THEN { <<>> }
    ELSE UNION { { <<T[i]>> \o o : o \in OrdersBy(T, I \ {i}, K) } :
                 i \in { j \in I : \A k \in I : K[j] <= K[k] } }

MessageDict(m) ==
    [direction |-> m.direction, sender |-> m.sender, recipient |-> m.recipient,
     subject |-> m.subject, body |-> m.body, timestamp |-> m.created_at]

MapSeq(s, F(_)) == [i \in 1..Len(s) |-> F(s[i])]

ThreadRows(thread_id) ==
    { i \in 1..Len(messages) : messages[i].thread_id = thread_id }

\* get_conversation_history: what the SELECT ... ORDER BY created_at ASC may
\* return, as the list of dicts built from it
get_conversation_history(thread_id) ==
    { MapSeq(o, MessageDict) :
        o \in OrdersBy(messages, ThreadRows(thread_id),
                       [i \in DOMAIN messages |-> messages[i].created_at]) }

\* list_conversations: SELECT ... LEFT JOIN ... GROUP BY c.thread_id
\* ORDER BY c.updated_at DESC
ConversationDict(c) ==
    [thread_id |-> c.thread_id, prospect_email |-> c.prospect_email,
     prospect_name |-> c.prospect_name, subject |-> c.subject,
     status |-> c.status, created_at |-> c.created_at,
     message_count |-> Cardinality(ThreadRows(c.thread_id))]

list_conversations ==
    { MapSeq(o, ConversationDict) :
        o \in OrdersBy(conversations, DOMAIN conversations,
                       [i \in DOMAIN conversations |->
                           0 - conversations[i].updated_at]) }

(***************************************************************************)
(* sdr_auto_reply.py: the POST handlers receive_email (/webhook/email) and *)
(* simulate_incoming_email (/test/simulate).  Flask serves each request on *)
(* a thread of its own; a request's record holds the locals of its handler.*)
(* Each action is one stretch of the handler that ends with one statement  *)
(* on the database file, or fails with the exception that stretch raises.  *)
(***************************************************************************)
Requests == 1..MaxRequests

NoResponse == [code |-> 0, status |-> "None", thread_id |-> NoId,
               sent |-> FALSE, message |-> "None"]

NoView == [endpoint |-> "None", thread_id |-> NoId, body |-> <<>>]

IdleRequest ==
    [endpoint      |-> "None",   \* which handler serves the request
     pc            |-> "idle",
     sender_email  |-> <<>>,
     sender_name   |-> <<>>,
     recipient     |-> <<>>,
     subject       |-> <<>>,
     body          |-> <<>>,
     goc_thread_id |-> NoId,     \* get_or_create_conversation's local thread_id
     existing      |-> FALSE,    \* get_or_create_conversation's local existing
     thread_id     |-> NoId,     \* the handler's local thread_id
     response_body |-> <<>>,
     send_result   |-> "None",   \* send_result["status"]
     exc           |-> "None",   \* the exception raised in the handler
     propagated    |-> FALSE,    \* the exception left the handler
     resp          |-> NoResponse]

\* a mutant of the handler's except clause: the exception is raised again
receive_email_except_m(rq, e) ==
    [rq EXCEPT !.pc = "done", !.exc = e, !.propagated = TRUE]

\* except Exception as e: return jsonify({"status": "error", ...}), 500
\* (receive_email, lines 347-351)
receive_email_except(rq, e) ==
    [rq EXCEPT !.pc = "done", !.exc = e,
               !.resp = [code |-> 500, status |-> "error", thread_id |-> NoId,
                         sent |-> FALSE, message |-> e]]

\* simulate_incoming_email has no try block: the exception leaves the handler
simulate_raise(rq, e) ==
    [rq EXCEPT !.pc = "done", !.exc = e, !.propagated = TRUE]

\* an exception raised in the body of the handler of request rq
Raise(rq, e) ==
    IF rq.endpoint = "webhook" THEN receive_email_except(rq, e)
    ELSE simulate_raise(rq, e)

\* a mutant of the response: the sent flag is always true
Processed_m(rq, sent) ==
    [code |-> 200, status |-> "processed", thread_id |-> rq.thread_id,
     sent |-> TRUE, message |-> "None"]

\* return jsonify({"status": "processed", "thread_id": ..., ...}), 200
Processed(rq, sent) ==
    [code |-> 200, status |-> "processed", thread_id |-> rq.thread_id,
     sent |-> sent, message |-> "None"]

Inputs(endpoint) == IF endpoint = "webhook" THEN WebhookForms ELSE SimulateJsons
Parse(endpoint, input) ==
    IF endpoint = "webhook" THEN ParseForm(input) ELSE ParseJson(input)

\* generate_response: the prompt is built from the history and the latest
\* message; the agent's answer is any of Replies
generate_response(conversation_history, latest_message) == Replies

StoreIdle == UNCHANGED <<tidVars, researchVars>>

\* A request arrives; the handler parses it and calls
\* get_or_create_conversation, which computes the thread id and runs its
\* SELECT.  Parsing may raise (a malformed post), and so may the SELECT.
Receive(r) ==
    /\ r = started + 1
    /\ req[r].pc = "idle"
    /\ started' = r
    /\ \E endpoint \in {"webhook", "simulate"} :
          LET arrived == [IdleRequest EXCEPT !.endpoint = endpoint] IN
          \/ req' = [req EXCEPT ![r] = Raise(arrived, "BadRequest")]
          \/ \E input \in Inputs(endpoint) :
                LET p   == Parse(endpoint, input)
                    tid == generate_thread_id(p.sender_email, p.subject)
                    rq  == [arrived EXCEPT !.sender_email = p.sender_email,
                                           !.sender_name = p.sender_name,
                                           !.recipient = p.recipient,
                                           !.subject = p.subject,
                                           !.body = p.body,
                                           !.goc_thread_id = tid]
                IN  \/ req' = [req EXCEPT ![r] =
                                 [rq EXCEPT !.pc = "goc_write",
                                            !.existing = HasConversation(tid)]]
                    \/ req' = [req EXCEPT ![r] = Raise(rq, "OperationalError")]
    /\ view' = NoView
    /\ UNCHANGED <<conversations, messages, now>>
    /\ StoreIdle

\* get_or_create_conversation after its SELECT: the INSERT of a new row,
\* which the UNIQUE constraint on thread_id refuses when the row exists by
\* now, or the UPDATE of the row found; then the return to the handler.
GetOrCreateWrite(r) ==
    LET rq  == req[r]
        tid == rq.goc_thread_id
        returned == [rq EXCEPT !.pc = "save_inbound", !.thread_id = tid]
    IN
    /\ rq.pc = "goc_write"
    /\ \/ /\ ~rq.existing
          /\ ~UniqueViolation(tid)
          /\ conversations' = Append(conversations,
                 NewConversation(tid, rq.sender_email, rq.sender_name, rq.subject))
          /\ req' = [req EXCEPT ![r] = returned]
       \/ /\ ~rq.existing
          /\ UniqueViolation(tid)
          /\ req' = [req EXCEPT ![r] = Raise(rq, "IntegrityError")]
          /\ UNCHANGED conversations
       \/ /\ rq.existing
          /\ conversations' = [i \in DOMAIN conversations |->
                 IF conversations[i].thread_id = tid
                 THEN TouchConversation(conversations[i]) ELSE conversations[i]]
          /\ req' = [req EXCEPT ![r] = returned]
       \/ /\ req' = [req EXCEPT ![r] = Raise(rq, "OperationalError")]
          /\ UNCHANGED conversations
    /\ view' = NoView
    /\ UNCHANGED <<messages, now, started>>
    /\ StoreIdle

\* save_message(thread_id, direction, ...): one INSERT INTO messages
save_message(thread_id, direction, sender, recipient, subject, body) ==
    messages' = Append(messages,
        NewMessage(thread_id, direction, sender, recipient, subject, body))

\* a mutant of the handler: the incoming message is not saved
SaveInbound_m(r) ==
    /\ req[r].pc = "save_inbound"
    /\ req' = [req EXCEPT ![r].pc = "generate"]
    /\ view' = NoView
    /\ UNCHANGED <<conversations, messages, now, started>>
    /\ StoreIdle

\* the handler saves the incoming message
SaveInbound(r) ==
    LET rq == req[r] IN
    /\ rq.pc = "save_inbound"
    /\ \/ /\ save_message(rq.thread_id, "inbound", rq.sender_email,
                          rq.recipient, rq.subject, rq.body)
          /\ req' = [req EXCEPT ![r].pc = "generate"]
       \/ /\ req' = [req EXCEPT ![r] = Raise(rq, "OperationalError")]
          /\ UNCHANGED messages
    /\ view' = NoView
    /\ UNCHANGED <<conversations, now, started>>
    /\ StoreIdle

\* a mutant of the handler: when the agent fails, the inbound message that
\* the request saved is deleted again
Generate_m(r) ==
    LET rq == req[r] IN
    /\ rq.pc = "generate"
    /\ \/ /\ \E history \in get_conversation_history(rq.thread_id) :
             \E answer \in generate_response(history, rq.body) :
                req' = [req EXCEPT ![r].pc = "reply", ![r].response_body = answer]
          /\ UNCHANGED messages
       \/ /\ req' = [req EXCEPT ![r] = Raise(rq, "OperationalError")]
          /\ UNCHANGED messages
       \/ /\ req' = [req EXCEPT ![r] = Raise(rq, "AgentError")]
          /\ messages' = SelectSeq(messages,
                LAMBDA m : ~(m.thread_id = rq.thread_id /\ m.direction = "inbound"))
    /\ view' = NoView
    /\ UNCHANGED <<conversations, now, started>>
    /\ StoreIdle

\* the handler reads the thread's history and has the agent write the answer
Generate(r) ==
    LET rq == req[r] IN
    /\ rq.pc = "generate"
    /\ \/ \E history \in get_conversation_history(rq.thread_id) :
          \E answer \in generate_response(history, rq.body) :
             req' = [req EXCEPT ![r].pc = "reply", ![r].response_body = answer]
       \/ \E e \in {"OperationalError", "AgentError"} :
             req' = [req EXCEPT ![r] = Raise(rq, e)]
    /\ view' = NoView
    /\ UNCHANGED <<conversations, messages, now, started>>
    /\ StoreIdle

\* send_reply_email never raises: it returns status "success" or "error"
send_reply_email == {"success", "error"}

\* the handler sends the reply, saves the outbound message when the reply
\* was sent, and returns
Reply(r) ==
    LET rq == req[r] IN
    /\ rq.pc = "reply"
    /\ \E send_result \in send_reply_email :
          LET sent == [rq EXCEPT !.send_result = send_result] IN
          \/ /\ send_result = "success"
             /\ save_message(rq.thread_id, "outbound", YOUR_EMAIL, rq.sender_email,
                             ReplySubject(rq.subject), rq.response_body)
             /\ req' = [req EXCEPT ![r] =
                          [sent EXCEPT !.pc = "done", !.resp = Processed(rq, TRUE)]]
          \/ /\ send_result = "success"
             /\ req' = [req EXCEPT ![r] = Raise(sent, "OperationalError")]
             /\ UNCHANGED messages
          \/ /\ send_result = "error"
             /\ req' = [req EXCEPT ![r] =
                          [sent EXCEPT !.pc = "done", !.resp = Processed(rq, FALSE)]]
             /\ UNCHANGED messages
    /\ view' = NoView
    /\ UNCHANGED <<conversations, now, started>>
    /\ StoreIdle

\* a second passes
Tick ==
    /\ now < MaxTime
    /\ now' = now + 1
    /\ view' = NoView
    /\ UNCHANGED <<conversations, messages, req, started>>
    /\ StoreIdle

\* GET /conversations/<thread_id> (get_conversation)
GetConversation ==
    /\ \E thread_id \in { conversations[i].thread_id : i \in DOMAIN conversations }
                        \cup {0} :
       \E history \in get_conversation_history(thread_id) :
          view' = [endpoint |-> "detail", thread_id |-> thread_id, body |-> history]
    /\ UNCHANGED <<conversations, messages, now, req, started>>
    /\ StoreIdle

\* GET /conversations (list_conversations)
ListConversations ==
    /\ \E rows \in list_conversations :
          view' = [endpoint |-> "list", thread_id |-> NoId, body |-> rows]
    /\ UNCHANGED <<conversations, messages, now, req, started>>
    /\ StoreIdle

StoreInit ==
    /\ init_db
    /\ now = 0
    /\ req = [r \in Requests |-> IdleRequest]
    /\ started = 0
    /\ view = NoView

\* no request is being served
Quiet == \A r \in Requests : req[r].pc \in {"idle", "done"}

\* a request arrives while no other is being served
ReceiveAlone(r) == Quiet /\ Receive(r)

(***************************************************************************)
(* deep_research/research_manager.py: ResearchManager.run, an async        *)
(* generator, and perform_searches with its asyncio tasks.  run_research   *)
(* (deep_research.py) yields again every item run yields, so `yielded' is  *)
(* also what the user interface receives.                                  *)
(***************************************************************************)
\* what the planner may put in a WebSearchPlan, and what the agents answer
SearchItems == { [reason |-> "r1", query |-> "q1"], [reason |-> "r2", query |-> "q2"] }
Outputs     == { "out1", "out2" }
Reports     == { [markdown_report |-> "# report"] }

TraceLink        == "View trace: https://platform.openai.com/traces/trace?trace_id=..."
SearchesPlanned  == "Searches planned, starting to search..."
SearchesComplete == "Searches complete, writing report..."
ReportWritten    == "Report written, sending email..."
EmailSent        == "Email sent, research complete"

NoReport == [markdown_report |-> None]

ResearchInit ==
    /\ run_pc = "start"
    /\ run_exc = None
    /\ yielded = <<>>
    /\ search_plan = <<>>
    /\ tasks = <<>>
    /\ doneq = <<>>
    /\ results = <<>>
    /\ num_completed = 0
    /\ search_results = <<>>
    /\ report = NoReport
    /\ calls = [planner |-> 0, writer |-> 0, email |-> 0]

ResearchIdle == UNCHANGED <<tidVars, storeVars>>

\* run, lines 23-26: the trace is opened and its link is yielded
StartRun ==
    /\ run_pc = "start"
    /\ yielded' = Append(yielded, TraceLink)
    /\ run_pc' = "plan"
    /\ UNCHANGED <<run_exc, search_plan, tasks, doneq, results, num_completed,
                   search_results, report, calls>>
    /\ ResearchIdle

\* run, lines 28-29: plan_searches runs the planner agent once; its plan is
\* any list of items, or the call raises and the exception leaves run
PlanSearches ==
    /\ run_pc = "plan"
    /\ calls' = [calls EXCEPT !.planner = @ + 1]
    /\ \/ /\ search_plan' \in SeqsUpTo(SearchItems, MaxSearches)
          /\ yielded' = Append(yielded, SearchesPlanned)
          /\ run_pc' = "search"
          /\ UNCHANGED run_exc
       \/ /\ run_pc' = "raised"
          /\ run_exc' = "plan_searches"
          /\ UNCHANGED <<search_plan, yielded>>
    /\ UNCHANGED <<tasks, doneq, results, num_completed, search_results, report>>
    /\ ResearchIdle

\* perform_searches, line 57: asyncio.create_task(self.search(item)) for the
\* next item of the plan.  The comprehension does not await, so no task
\* runs before the last one is created.
AllCreated == Len(tasks) = Len(search_plan)

CreateTask ==
    /\ run_pc = "search"
    /\ ~AllCreated
    /\ tasks' = Append(tasks, [item |-> search_plan[Len(tasks) + 1],
                               state |-> "pending", runs |-> 0, result |-> None])
    /\ UNCHANGED <<run_pc, run_exc, yielded, search_plan, doneq, results,
                   num_completed, search_results, report, calls>>
    /\ ResearchIdle

\* a mutant of search: a search that failed is submitted again
SearchStart_m(i) ==
    /\ run_pc = "search"
    /\ AllCreated
    /\ \/ tasks[i].state = "pending"
       \/ tasks[i].state = "done" /\ tasks[i].result = None
    /\ tasks' = [tasks EXCEPT ![i].state = "running", ![i].runs = @ + 1]
    /\ UNCHANGED <<run_pc, run_exc, yielded, search_plan, doneq, results,
                   num_completed, search_results, report, calls>>
    /\ ResearchIdle

\* search, lines 70-75: the task starts and calls Runner.run(search_agent, ...)
SearchStart(i) ==
    /\ run_pc = "search"
    /\ AllCreated
    /\ tasks[i].state = "pending"
    /\ tasks' = [tasks EXCEPT ![i].state = "running", ![i].runs = @ + 1]
    /\ UNCHANGED <<run_pc, run_exc, yielded, search_plan, doneq, results,
                   num_completed, search_results, report, calls>>
    /\ ResearchIdle

\* a mutant of search: the exception is not caught, and the task's result
\* is the exception
search_result_m(outcome) == outcome

\* search, lines 76-78: str(result.final_output), or None when Runner.run
\* raised
search_result(outcome) == IF outcome = "Exception" THEN None ELSE outcome

\* the agent answers or fails; the task ends and as_completed queues it
SearchFinish(i) ==
    /\ run_pc = "search"
    /\ tasks[i].state = "running"
    /\ \E outcome \in Outputs \cup {"Exception"} :
          tasks' = [tasks EXCEPT ![i].state = "done",
                                 ![i].result = search_result(outcome)]
    /\ doneq' = Append(doneq, i)
    /\ UNCHANGED <<run_pc, run_exc, yielded, search_plan, results,
                   num_completed, search_results, report, calls>>
    /\ ResearchIdle

\* a mutant of the loop: the tasks are awaited in the order of the plan
NextCompleted_m == IF tasks[num_completed + 1].state = "done"
                   THEN {num_completed + 1} ELSE {}

\* for task in asyncio.as_completed(tasks): the next task to have completed
\* (none while the queue is empty)
NextCompleted == IF num_completed < Len(doneq) THEN {doneq[num_completed + 1]} ELSE {}

\* a mutant of the loop: it ends after the first task to have completed
LoopDone_m == num_completed > 0 \/ num_completed = Len(tasks)

\* the loop over as_completed(tasks) ends when every task has been awaited
LoopDone == num_completed = Len(tasks)

\* perform_searches, lines 59-64: one turn of the loop
AwaitNext ==
    /\ run_pc = "search"
    /\ AllCreated
    /\ ~LoopDone
    /\ \E i \in NextCompleted :
          LET result == tasks[i].result IN
          results' = IF result # None THEN Append(results, result) ELSE results
    /\ num_completed' = num_completed + 1
    /\ UNCHANGED <<run_pc, run_exc, yielded, search_plan, tasks, doneq,
                   search_results, report, calls>>
    /\ ResearchIdle

\* perform_searches returns; run, lines 30-31
SearchesDone ==
    /\ run_pc = "search"
    /\ AllCreated
    /\ LoopDone
    /\ search_results' = results
    /\ yielded' = Append(yielded, SearchesComplete)
    /\ run_pc' = "write"
    /\ UNCHANGED <<run_exc, search_plan, tasks, doneq, results, num_completed,
                   report, calls>>
    /\ ResearchIdle

\* run, lines 32-33: write_report runs the writer agent once
WriteReport ==
    /\ run_pc = "write"
    /\ calls' = [calls EXCEPT !.writer = @ + 1]
    /\ \/ /\ report' \in Reports
          /\ yielded' = Append(yielded, ReportWritten)
          /\ run_pc' = "email"
          /\ UNCHANGED run_exc
       \/ /\ run_pc' = "raised"
          /\ run_exc' = "write_report"
          /\ UNCHANGED <<report, yielded>>
    /\ UNCHANGED <<search_plan, tasks, doneq, results, num_completed, search_results>>
    /\ ResearchIdle

\* a mutant of run: a failure of send_email is skipped and run goes on
SendEmail_m ==
    /\ run_pc = "email"
    /\ calls' = [calls EXCEPT !.email = @ + 1]
    /\ \/ /\ yielded' = Append(yielded, EmailSent)
          /\ run_pc' = "report"
          /\ UNCHANGED run_exc
       \/ /\ run_pc' = "report"
          /\ run_exc' = "send_email"
          /\ UNCHANGED yielded
    /\ UNCHANGED <<search_plan, tasks, doneq, results, num_completed,
                   search_results, report>>
    /\ ResearchIdle

\* run, lines 34-35: send_email runs the email agent once
SendEmail ==
    /\ run_pc = "email"
    /\ calls' = [calls EXCEPT !.email = @ + 1]
    /\ \/ /\ yielded' = Append(yielded, EmailSent)
          /\ run_pc' = "report"
          /\ UNCHANGED run_exc
       \/ /\ run_pc' = "raised"
          /\ run_exc' = "send_email"
          /\ UNCHANGED yielded
    /\ UNCHANGED <<search_plan, tasks, doneq, results, num_completed,
                   search_results, report>>
    /\ ResearchIdle

\* run, line 36: the report's markdown is yielded, and the generator ends
YieldReport ==
    /\ run_pc = "report"
    /\ yielded' = Append(yielded, report.markdown_report)
    /\ run_pc' = "done"
    /\ UNCHANGED <<run_exc, search_plan, tasks, doneq, results, num_completed,
                   search_results, report, calls>>
    /\ ResearchIdle

(***************************************************************************)
(* The specifications                                                      *)
(***************************************************************************)
\* the variables of a program that a specification does not run
StoreOff    == StoreInit
ResearchOff == ResearchInit

InitTid == TidInit /\ StoreOff /\ ResearchOff
NextTid ==
    \/ SwapEmailCase
    \/ SwapSubjectCase
    \/ AddPrefix
    \/ PadLeft
    \/ PadRight
    \/ CallThreadId
SpecTid == InitTid /\ [][NextTid]_vars

\* the server, its requests served concurrently
Init == TidIdle /\ StoreInit /\ ResearchOff
Next ==
    \/ \E r \in Requests : Receive(r)
    \/ \E r \in Requests : GetOrCreateWrite(r)
    \/ \E r \in Requests : SaveInbound(r)
    \/ \E r \in Requests : Generate(r)
    \/ \E r \in Requests : Reply(r)
    \/ Tick
    \/ GetConversation
    \/ ListConversations
Spec == Init /\ [][Next]_vars

\* the server, its requests served one after the other
NextSeq ==
    \/ \E r \in Requests : ReceiveAlone(r)
    \/ \E r \in Requests : GetOrCreateWrite(r)
    \/ \E r \in Requests : SaveInbound(r)
    \/ \E r \in Requests : Generate(r)
    \/ \E r \in Requests : Reply(r)
    \/ Tick
    \/ GetConversation
    \/ ListConversations
SpecSeq == Init /\ [][NextSeq]_vars

\* one run of the research pipeline
InitResearch == TidIdle /\ StoreOff /\ ResearchInit
NextResearch ==
    \/ StartRun
    \/ PlanSearches
    \/ CreateTask
    \/ \E i \in DOMAIN tasks : SearchStart(i)
    \/ \E i \in DOMAIN tasks : SearchFinish(i)
    \/ AwaitNext
    \/ SearchesDone
    \/ WriteReport
    \/ SendEmail
    \/ YieldReport
SpecResearch == InitResearch /\ [][NextResearch]_vars

SavedOrder(thread_id) ==
    MapSeq(SelectSeq(messages, LAMBDA m : m.thread_id = thread_id), MessageDict)

C3_WebhookStatus ==
    \A r \in Requests :
        req[r].endpoint = "webhook" =>
            /\ ~req[r].propagated
            /\ req[r].pc = "done" /\ req[r].exc = None =>
                  /\ req[r].resp.code = 200
                  /\ req[r].resp.status = "processed"
                  /\ req[r].resp.thread_id # NoId
                  /\ req[r].resp.thread_id =
                        generate_thread_id(req[r].sender_email, req[r].subject)
            /\ req[r].pc = "done" /\ req[r].exc # None =>
                  /\ req[r].resp.code = 500
                  /\ req[r].resp.status = "error"
            /\ req[r].pc # "done" => req[r].resp = NoResponse /\ req[r].exc = None

\* C3's case: one webhook request was answered 200 and another one 500
C3_Witness ==
    \E r1, r2 \in Requests :
        /\ req[r1].endpoint = "webhook" /\ req[r1].pc = "done"
        /\ req[r1].exc = None /\ req[r1].resp.code = 200
        /\ req[r2].endpoint = "webhook" /\ req[r2].pc = "done"
        /\ req[r2].exc = "AgentError" /\ req[r2].resp.code = 500

\* C8 (Spec), the claim as stated: when a step of simulate_incoming_email
\* raises, the endpoint returns an error-status response and the exception
\* does not leave the handler.
C8_SimulateCaught ==
    \A r \in Requests :
        /\ req[r].endpoint = "simulate"
        /\ req[r].pc = "done"
        /\ req[r].exc \in {"OperationalError", "IntegrityError", "AgentError"}
        => ~req[r].propagated /\ req[r].resp.status = "error"

\* the number of conversation rows with a thread id
RowsOf(thread_id) ==
    Cardinality({ i \in DOMAIN conversations : conversations[i].thread_id = thread_id })

\* request r's call of get_or_create_conversation returns in this step
GetOrCreateReturns(r) == req[r].pc = "goc_write" /\ req'[r].pc = "save_inbound"

\* C5 (SpecSeq): after any sequence of get_or_create_conversation calls no
\* two conversation rows have the same thread id; calls for the same
\* sender+normalized-subject pair return the same thread id; a call returns
\* the id of its pair, adds no row when the pair has one and exactly one row
\* when it has none, and is never refused by the UNIQUE constraint; no other
\* step adds a conversation row.
C5_OneRowPerThread ==
    /\ [](\A i, j \in DOMAIN conversations :
            conversations[i].thread_id = conversations[j].thread_id => i = j)
    /\ [](\A r, q \in Requests :
            /\ req[r].thread_id # NoId
            /\ req[q].thread_id # NoId
            /\ ThreadKey(req[r].sender_email, req[r].subject)
                 = ThreadKey(req[q].sender_email, req[q].subject)
            => req[r].thread_id = req[q].thread_id)
    /\ [](\A r \in Requests : req[r].exc # "IntegrityError")
    /\ [][\A r \in Requests :
            /\ GetOrCreateReturns(r) =>
                  /\ req'[r].thread_id =
                        generate_thread_id(req[r].sender_email, req[r].subject)
                  /\ Len(conversations') = Len(conversations)
                        + (IF RowsOf(req'[r].thread_id) = 0 THEN 1 ELSE 0)
                  /\ RowsOf(req[r].goc_thread_id)' = 1
            /\ ~GetOrCreateReturns(r) /\ req'[r] # req[r] =>
                  Len(conversations') = Len(conversations)]_vars

\* C5's case: two calls for the same pair (written differently) have
\* returned; the first added the row and the second added none
C5_Witness ==
    /\ Len(conversations) = 1
    /\ \E r, q \in Requests :
          /\ r # q
          /\ req[r].thread_id # NoId
          /\ req[q].thread_id = req[r].thread_id
          /\ req[q].subject # req[r].subject
          /\ req[q].sender_email # req[r].sender_email

\* T is S with rows appended
Extends(T, S) == Len(T) >= Len(S) /\ SubSeq(T, 1, Len(S)) = S

\* C6 (Spec), the claim as stated: no step deletes a conversation or message
\* row or changes any field of a row that exists.
C6_RowsNeverChange ==
    [][Extends(conversations', conversations) /\ Extends(messages', messages)]_vars

\* C6 (Spec), amended: no step deletes a row, no step changes a message row,
\* and the only field of a conversation row that a step changes is
\* updated_at, which only get_or_create_conversation changes, only in the
\* row of the thread it was called for, and only to the current time.
C6_RowsAppendOnly ==
    [][/\ Extends(messages', messages)
       /\ Len(conversations') >= Len(conversations)
       /\ \A i \in DOMAIN conversations :
             /\ conversations'[i] =
                   [conversations[i] EXCEPT !.updated_at = conversations'[i].updated_at]
             /\ conversations'[i] # conversations[i] =>
                   /\ conversations'[i].updated_at = now
                   /\ \E r \in Requests :
                         /\ GetOrCreateReturns(r)
                         /\ req[r].goc_thread_id = conversations[i].thread_id]_vars

\* C6's case: an UPDATE has changed a conversation row that has messages
C6_Witness ==
    \E i \in DOMAIN conversations :
        /\ conversations[i].updated_at # conversations[i].created_at
        /\ ThreadRows(conversations[i].thread_id) # {}

\* C9 (Spec), the claim as stated: two webhook requests for the same sender
\* and normalized subject, served concurrently, both end with status
\* "processed", with one conversation row for the thread and with both
\* inbound messages stored.  (Requests that the database, the agent or the
\* parser failed for reasons of their own are left out.)
C9_ConcurrentRequestsBothProcessed ==
    \A r, q \in Requests :
        /\ r # q
        /\ req[r].endpoint = "webhook" /\ req[r].pc = "done"
        /\ req[q].endpoint = "webhook" /\ req[q].pc = "done"
        /\ req[r].goc_thread_id # NoId
        /\ req[r].goc_thread_id = req[q].goc_thread_id
        /\ req[r].exc \notin {"BadRequest", "OperationalError", "AgentError"}
        /\ req[q].exc \notin {"BadRequest", "OperationalError", "AgentError"}
        => /\ req[r].resp.status = "processed"
           /\ req[q].resp.status = "processed"
           /\ RowsOf(req[r].goc_thread_id) = 1
           /\ Cardinality({ i \in ThreadRows(req[r].goc_thread_id) :
                               messages[i].direction = "inbound" }) = 2


\* perform_searches has returned to run
SearchesReturned == run_pc \in {"write", "email", "report", "done"}
                    \/ (run_pc = "raised" /\ run_exc # "plan_searches")

\* the tasks whose search answered o
Answered(o) == { i \in DOMAIN tasks : tasks[i].result = o }

\* how many times o is in the list
Count(list, o) == Cardinality({ k \in DOMAIN list : list[k] = o })

\* C4 (SpecResearch): perform_searches tolerates the failure of any of its
\* searches: it never raises (run ends with an exception only in the
\* planner, the writer or the email agent), and the list it returns holds
\* the output of every search that succeeded, once for each such search,
\* and nothing else; it is empty when every search failed.
C4_FailedSearchesDropped ==
    /\ run_pc = "raised" => run_exc \in {"plan_searches", "write_report", "send_email"}
    /\ SearchesReturned =>
          /\ Len(tasks) = Len(search_plan)
          /\ \A i \in DOMAIN tasks : tasks[i].state = "done"
                                      /\ tasks[i].item = search_plan[i]
          /\ \A k \in DOMAIN search_results : search_results[k] \in Outputs
          /\ \A o \in Outputs :
                Count(search_results, o) = Cardinality(Answered(o))

\* C4's case: of two searches one has failed and one has succeeded, and
\* perform_searches has returned the one output
C4_Witness ==
    /\ SearchesReturned
    /\ Len(tasks) = 2
    /\ \E i, j \in DOMAIN tasks : /\ tasks[i].result = None
                                   /\ tasks[j].result \in Outputs
    /\ Len(search_results) = 1

\* the pipeline's status updates, in the order run yields them
Updates == <<TraceLink, SearchesPlanned, SearchesComplete, ReportWritten, EmailSent>>

\* yielded is the first items of list
IsPrefix(list) == Len(yielded) <= Len(list)
                  /\ \A k \in DOMAIN yielded : yielded[k] = list[k]

\* C7 (SpecResearch): run executes planning, search, report writing and
\* email dispatch in that order, each stage once and only after the stage
\* before it has completed; what it has yielded is always the first items of
\* trace link, searches planned, searches complete, report written, email
\* sent, report markdown; and a run that ends with no failure has yielded
\* all six, the report's markdown last.
C7_PipelineOrder ==
    /\ IsPrefix(Append(Updates, report.markdown_report))
    /\ calls.planner <= 1 /\ calls.writer <= 1 /\ calls.email <= 1
    /\ tasks # <<>> => calls.planner = 1 /\ Len(yielded) >= 2
    /\ calls.writer = 1 =>
          /\ calls.planner = 1
          /\ Len(tasks) = Len(search_plan)
          /\ num_completed = Len(tasks)
          /\ \A i \in DOMAIN tasks : tasks[i].state = "done"
          /\ Len(yielded) >= 3
    /\ calls.email = 1 =>
          /\ calls.writer = 1
          /\ report \in Reports
          /\ Len(yielded) >= 4
    /\ run_pc = "done" =>
          /\ run_exc = None
          /\ calls.email = 1
          /\ Len(yielded) = 6
          /\ yielded[6] = report.markdown_report

\* C7's case: a run with two searches has ended with no failure
C7_Witness ==
    /\ run_pc = "done"
    /\ Len(tasks) = 2
    /\ yielded = Append(Updates, "# report")

RECURSIVE FinishedOutputs(_)
\* the outputs of the first n tasks to have finished, in that order
FinishedOutputs(n) ==
    IF n = 0 THEN <<>>
    ELSE LET result == tasks[doneq[n]].result IN
         IF result # None THEN Append(FinishedOutputs(n - 1), result)
         ELSE FinishedOutputs(n - 1)

\* C10 (SpecResearch): perform_searches creates the task of every search of
\* the plan before any search runs and before it awaits any result, and it
\* collects the results as the searches finish: the list it builds holds
\* the outputs in the order in which the searches finished.
C10_CollectedAsCompleted ==
    /\ (num_completed > 0 \/ \E i \in DOMAIN tasks : tasks[i].state # "pending")
          => Len(tasks) = Len(search_plan)
    /\ num_completed <= Len(doneq)
    /\ results = FinishedOutputs(num_completed)
    /\ SearchesReturned => search_results = FinishedOutputs(Len(tasks))

\* C10's case: the second search of the plan finished first, and the list
\* returned has its output first
C10_Witness ==
    /\ SearchesReturned
    /\ doneq = <<2, 1>>
    /\ tasks[1].result = "out1"
    /\ tasks[2].result = "out2"
    /\ search_results = <<"out2", "out1">>

\* C11 (SpecResearch): there is no retry.  Every task is the search of the
\* plan's item at its place and is submitted to the search agent once at
\* most, exactly once as soon as it has started, whether it then answers or
\* fails; when perform_searches has returned there is one task for each item
\* of the plan, each submitted exactly once; the planner, the writer and the
\* email agent are each invoked once at most.
C11_NoRetry ==
    /\ Len(tasks) <= Len(search_plan)
    /\ \A i \in DOMAIN tasks :
          /\ tasks[i].item = search_plan[i]
          /\ tasks[i].runs = (IF tasks[i].state = "pending" THEN 0 ELSE 1)
    /\ SearchesReturned =>
          /\ Len(tasks) = Len(search_plan)
          /\ \A i \in DOMAIN tasks : tasks[i].runs = 1
    /\ calls.planner <= 1
    /\ calls.writer <= 1
    /\ calls.email <= 1

\* C11's case: a run has ended whose plan had MaxSearches items, of which
\* one search failed and one answered, and every agent was invoked
C11_Witness ==
    /\ run_pc = "done"
    /\ Len(search_plan) = MaxSearches
    /\ \E i, j \in DOMAIN tasks : /\ tasks[i].result = None
                                   /\ tasks[j].result \in Outputs
    /\ calls = [planner |-> 1, writer |-> 1, email |-> 1]

\* request r's handler calls send_reply_email and ends in this step
SendReturns(r) == req[r].pc = "reply" /\ req'[r].pc = "done"

\* the outbound row that the handler of request rq saves
OutboundRow(rq) ==
    NewMessage(rq.thread_id, "outbound", YOUR_EMAIL, rq.sender_email,
               ReplySubject(rq.subject), rq.response_body)

\* the thread of rq holds the inbound message of rq
HoldsInbound(rq) ==
    \E i \in DOMAIN messages :
        /\ messages[i].thread_id = rq.thread_id
        /\ messages[i].direction = "inbound"
        /\ messages[i].sender = rq.sender_email
        /\ messages[i].body = rq.body

\* C12 (Spec), the claim as stated: in both handlers the step that sends the
\* reply saves an outbound row if and only if send_reply_email reported
\* success, and the response is 200 "processed" with the sent flag equal to
\* that outcome.
C12_OutboundIffSent ==
    [][\A r \in Requests :
          SendReturns(r) =>
             /\ (messages' # messages) <=> (req'[r].send_result = "success")
             /\ req'[r].resp.code = 200
             /\ req'[r].resp.status = "processed"
             /\ req'[r].resp.sent = (req'[r].send_result = "success")]_vars

\* C12 (Spec), amended: the step saves an outbound row, the reply of this
\* request, only when send_reply_email reported success, and no row
\* otherwise; when the handler returns, the response is 200 "processed"
\* with the sent flag equal to that outcome, and the row was saved if the
\* send succeeded; a failed send raises nothing, and the thread then holds
\* the inbound message and gets no reply in this step.  The one case with a
\* successful send and no outbound row is a save_message that raises: the
\* request then fails like any other failed step.
C12_OutboundOnlyIfSent ==
    [][\A r \in Requests :
          SendReturns(r) =>
             /\ req'[r].send_result \in {"success", "error"}
             /\ messages' # messages =>
                   /\ req'[r].send_result = "success"
                   /\ messages' = Append(messages, OutboundRow(req[r]))
             /\ req'[r].exc = None =>
                   /\ (messages' # messages) <=> (req'[r].send_result = "success")
                   /\ ~req'[r].propagated
                   /\ req'[r].resp.code = 200
                   /\ req'[r].resp.status = "processed"
                   /\ req'[r].resp.thread_id = req[r].thread_id
                   /\ req'[r].resp.sent = (req'[r].send_result = "success")
             /\ req'[r].send_result = "error" =>
                   /\ req'[r].exc = None
                   /\ messages' = messages
                   /\ HoldsInbound(req[r])
             /\ req'[r].exc # None =>
                   /\ req'[r].send_result = "success"
                   /\ messages' = messages]_vars

\* C12's case: a webhook request and a simulate request have both ended
\* with 200, one after a failed send and one after a successful one
C12_Witness ==
    \E r, q \in Requests :
        /\ req[r].endpoint # req[q].endpoint
        /\ req[r].pc = "done" /\ req[r].send_result = "error"
        /\ req[r].resp.code = 200 /\ ~req[r].resp.sent
        /\ req[q].pc = "done" /\ req[q].send_result = "success"
        /\ req[q].resp.code = 200 /\ req[q].resp.sent
        /\ \E i \in DOMAIN messages : messages[i].direction = "outbound"

\* response generation raised in the webhook request rq
GenerationFailed(rq) ==
    rq.endpoint = "webhook" /\ rq.pc = "done" /\ rq.exc = "AgentError"

\* C13 (Spec): there is no rollback.  The step in which response generation
\* raises in receive_email changes no row; from then on the request has the
\* response 500 with status "error", no exception has left the handler, no
\* reply was sent (send_reply_email was not called, so the request saved no
\* outbound message), and the conversation row of the thread and the
\* inbound message of the request are in the store.
C13_NoRollback ==
    /\ [](\A r \in Requests :
            GenerationFailed(req[r]) =>
               /\ req[r].resp.code = 500
               /\ req[r].resp.status = "error"
               /\ ~req[r].propagated
               /\ req[r].send_result = "None"
               /\ ~req[r].resp.sent
               /\ RowsOf(req[r].thread_id) = 1
               /\ HoldsInbound(req[r]))
    /\ [][\A r \in Requests :
            ~GenerationFailed(req[r]) /\ GenerationFailed(req'[r]) =>
               /\ req[r].pc = "generate"
               /\ messages' = messages
               /\ conversations' = conversations]_vars

\* C13's case: response generation has failed in a webhook request, whose
\* thread holds its inbound message and no outbound message, and a later
\* request has ended
C13_Witness ==
    \E r, q \in Requests :
        /\ r < q
        /\ GenerationFailed(req[r])
        /\ HoldsInbound(req[r])
        /\ \A i \in DOMAIN messages :
              messages[i].thread_id = req[r].thread_id =>
                 messages[i].direction = "inbound"
        /\ req[q].pc = "done"
        /\ req[q].resp.code = 200

\* how many rows of a thread have a direction
CountRows(thread_id, direction) ==
    Cardinality({ i \in ThreadRows(thread_id) : messages[i].direction = direction })

\* C14 (Spec): in every state of the store, whatever the interleaving of
\* the webhook and simulate requests, the thread id of every message row is
\* the thread id of a conversation row, and no thread holds more outbound
\* messages than inbound messages.
C14_MessagesBelongToThreads ==
    \A i \in DOMAIN messages :
        /\ RowsOf(messages[i].thread_id) >= 1
        /\ CountRows(messages[i].thread_id, "outbound")
              <= CountRows(messages[i].thread_id, "inbound")

\* C14's case: a webhook request and a simulate request for one thread were
\* both answered, so that the thread holds two messages of each direction
C14_Witness ==
    \E r, q \in Requests :
        /\ req[r].endpoint = "webhook" /\ req[r].pc = "done"
        /\ req[q].endpoint = "simulate" /\ req[q].pc = "done"
        /\ req[r].thread_id = req[q].thread_id
        /\ Len(conversations) = 1
        /\ CountRows(req[r].thread_id, "inbound") = 2
        /\ CountRows(req[r].thread_id, "outbound") = 2

\* the first n status updates
FirstUpdates(n) == SubSeq(Updates, 1, n)

\* C15 (SpecResearch): a failure of the planner, of the writer or of the
\* email agent ends the run at that stage.  The run has then yielded the
\* status updates up to that stage and nothing else (the trace link alone
\* when planning failed, up to "searches complete" when writing failed, up
\* to "report written" when the email failed), no later stage has run, and
\* the report's markdown is not among the items yielded, even when the
\* report was written; a run with such a failure never goes on.
C15_RunStopsAtFailure ==
    /\ (run_exc # None) <=> (run_pc = "raised")
    /\ run_exc = "plan_searches" =>
          /\ yielded = FirstUpdates(1)
          /\ tasks = <<>>
          /\ calls = [planner |-> 1, writer |-> 0, email |-> 0]
    /\ run_exc = "write_report" =>
          /\ yielded = FirstUpdates(3)
          /\ report = NoReport
          /\ calls = [planner |-> 1, writer |-> 1, email |-> 0]
    /\ run_exc = "send_email" =>
          /\ yielded = FirstUpdates(4)
          /\ report \in Reports
          /\ calls = [planner |-> 1, writer |-> 1, email |-> 1]
    /\ run_exc # None =>
          \A k \in DOMAIN yielded : \A rep \in Reports :
              yielded[k] # rep.markdown_report

\* C15's case: the searches were made, some of them failing, the report was
\* written, and sending the email has failed
C15_Witness ==
    /\ run_pc = "raised"
    /\ run_exc = "send_email"
    /\ report \in Reports
    /\ \E i \in DOMAIN tasks : tasks[i].result = None
    /\ yielded[Len(yielded)] = ReportWritten

============================================================================
